---- MODULE Spec2Model ----
(***************************************************************************)
(* A model of ConditionVariable<T> (src/src/lib.rs): one cell, that is a   *)
(* Mutex<T> paired with a Condvar, used by a few threads.  Every method of *)
(* the cell is a sequence of steps of the calling thread; pc[t] is the     *)
(* position of thread t inside the method it is running.                   *)
(*                                                                         *)
(* The std primitives are modelled by their documented behaviour:          *)
(*   - Mutex::lock blocks until the mutex is free, takes it, and returns   *)
(*     Err(PoisonError(guard)) when the mutex is poisoned (the error       *)
(*     carries the guard, so the lock stays held until it is dropped);     *)
(*   - a guard dropped while its thread panics poisons the mutex;          *)
(*   - Condvar::wait / wait_timeout_ms release the mutex atomically, block *)
(*     until a notification, a spurious wakeup or the timeout, and take    *)
(*     the mutex again before returning.                                   *)
(*                                                                         *)
(* The monotonic clock is unbounded; the code only uses the difference of  *)
(* two readings, so the model keeps, per thread, the number of clock ticks *)
(* since the reading it took (since) and since its call (age).             *)
(***************************************************************************)
EXTENDS Integers, Sequences, FiniteSets

\* ---- bounds of the model ----
MaxVal == 2          \* a non-unit cell stores a value in 0..MaxVal
MaxTimeout == 1      \* the largest timeout_ms a caller passes
MaxSlice == 2        \* the longest slice passed to wait_for_in / wait_for_in_ms
TickUs == 500        \* microseconds of clock time per Tick

\* ---- bounds of the history ----
AskedCap == MaxTimeout + 1   \* asked stops counting above the largest timeout

\* ---- program constants ----
NsPerUs == 1000      \* precise_time_ns() / 1000
UsPerMs == 1000      \* a wait_timeout_ms millisecond, in the clock's microseconds

Threads == {"t1", "t2", "t3"}
NoThread == "none"

\* The threads' parts, as in the tests: t1 is the thread that waits on the
\* cell (and reads it), t2 the thread that sets it (and reads it).  t3 is a
\* second waiter, for the runs in which several threads block on the cell.
Role(t) ==
    IF t = "t1"
    THEN {"get", "wait_for_condition", "wait_for_condition_ms", "wait_ms"}
    ELSE IF t = "t2" THEN {"set", "get"}
    ELSE {"wait_for_condition"}

\* The two threads of the tests.
Pair == {"t1", "t2"}

Timeouts == (0 - 1)..MaxTimeout

\* no T: the value of got outside get
NoValue == 0 - 1

\* wait_for and wait_for_in run wait_for_condition, wait_for_ms and
\* wait_for_in_ms run wait_for_condition_ms: op[t] is the method whose body
\* the thread is in.
Untimed == "wait_for_condition"
Timed == "wait_for_condition_ms"

VARIABLES
    unit,        \* TRUE when T is the unit type (the cell carries no payload)
    value,       \* the T inside the Mutex
    lockHolder,  \* the thread owning a MutexGuard, or NoThread
    poisoned,    \* the Mutex's poison flag
    pc,          \* per thread: position in the running method
    op,          \* per thread: the method it runs
    pred,        \* per thread: cond_func, as the set of values it accepts
    arg,         \* per thread: the value argument of set
    mode,        \* per thread: the notify argument of set
    timeout,     \* per thread: timeout_ms
    remaining,   \* per thread: remaining_ms
    since,       \* per thread: clock ticks since before_ms was read
    result,      \* per thread: what the method returned
    got,         \* per thread: the T that get is returning
    woke,        \* history: the untimed wait has come back from cvar.wait
    age,         \* history: clock ticks since the call of a timed wait
    seen,        \* history: a set has run since the call of a timed wait
                 \*          (for wait_ms: while it was inside wait_timeout_ms)
    hit,         \* history: a set has stored a value the predicate accepts
                 \*          while the untimed wait was blocked in cvar.wait
    asked,       \* history: the sum of the timeouts the timed wait passed to
                 \*          wait_timeout_ms, in milliseconds
    atPoison     \* history: the mutex was poisoned when the method was called

vars == <<unit, value, lockHolder, poisoned, pc, op, pred, arg, mode,
          timeout, remaining, since, result, got, woke, age, seen, hit,
          asked, atPoison>>

cellVars == <<unit, value, lockHolder, poisoned>>
argVars == <<op, pred, arg, mode, timeout>>
histVars == <<woke, age, seen, hit, asked, atPoison>>

\* The values of T.
Vals == IF unit THEN {0} ELSE 0..MaxVal

Min(a, b) == IF a < b THEN a ELSE b

\* The clock ticks that cover ms milliseconds.
TicksFor(ms) == IF ms <= 0 THEN 0 ELSE ((ms * UsPerMs) + TickUs - 1) \div TickUs

\* ---- pure helpers of the code ----

\* slice.contains(actual): true when some element equals actual
Contains(expected, actual) == \E i \in 1..Len(expected) : expected[i] = actual

\* the closure |actual| expected.contains(actual) of wait_for_in / wait_for_in_ms
WaitForInPred(expected) == {v \in Vals : Contains(expected, v)}

\* wait_for(expected) is wait_for_in(&[expected])
WaitForPred(expected) == WaitForInPred(<<expected>>)

\* x as u32, for the x > 0 the loop lets through (2^32 as 2^16 * 2^16)
AsU32(x) == (((x \div (2 ^ 16)) % (2 ^ 16)) * (2 ^ 16)) + (x % (2 ^ 16))

\* time::precise_time_ns()/1000 after n ticks of the clock, relative to a reading
ClockReading(n) == (n * TickUs * NsPerUs) \div NsPerUs

\* a loop that forgets to charge the elapsed time
NewRemainingKept(rem, ticks) == rem

\* the elapsed time added in place of subtracted
NewRemainingAdded(rem, ticks) == rem + (ClockReading(ticks) - ClockReading(0))

\* remaining_ms -= (after_ms - before_ms) as i64
NewRemaining(rem, ticks) == rem - (ClockReading(ticks) - ClockReading(0))

\* >= in place of >: one more round with a budget of zero
TimedLoopCondInclusive(t) == value \notin pred[t] /\ remaining[t] >= 0

\* while !cond_func(&*actual) && remaining_ms > 0
TimedLoopCond(t) == value \notin pred[t] /\ remaining[t] > 0

\* an if in place of the while: no second check after the first wake-up
LoopCondOnce(t) == value \notin pred[t] /\ ~woke[t]

\* a wait that remembers a match it has missed
LoopCondLatched(t) == value \notin pred[t] /\ ~hit[t]

\* the negation lost: while cond_func(&*actual)
LoopCondInverted(t) == value \in pred[t]

\* while !cond_func(&*actual)
LoopCond(t) == value \notin pred[t]

\* the exit reason returned in place of the last check: Ok(remaining_ms > 0)
TimedResultBudget(t) == IF remaining[t] > 0 THEN "true" ELSE "false"

\* Ok(cond_func(&*actual))
TimedResult(t) == IF value \in pred[t] THEN "true" ELSE "false"

\* the timeout of the sleep thread t is in, in milliseconds
SleepMs(t) == IF op[t] = "wait_ms" THEN timeout[t] ELSE AsU32(remaining[t])

\* wait_timeout_ms has run out of time
TimedOut(t) == since[t] * TickUs >= SleepMs(t) * UsPerMs

\* the threads blocked inside cvar.wait / cvar.wait_timeout_ms
Asleep == {t \in Threads : pc[t] = "sleep"}

\* a set whose Notify::All arm notifies nobody
NotifyLost(m) ==
    IF m = "All" \/ Asleep = {} THEN {{}} ELSE {{w} : w \in Asleep}

\* notify_all called in both arms of the match
NotifyBroadcast(m) == {Asleep}

\* a Notify::One arm that notifies nobody
NotifyOneLost(m) == IF m = "All" THEN {Asleep} ELSE {{}}

\* the sets of threads a notification may wake
NotifyTargets(m) ==
    IF m = "All" THEN {Asleep}
    ELSE IF Asleep = {} THEN {{}} ELSE {{w} : w \in Asleep}

\* get going on with the guard inside the PoisonError (into_inner)
OnPoisonIgnored(o) == IF o = "get" THEN "ok" ELSE IF o = Untimed THEN "err" ELSE "panic"

\* what lock.lock() yields to each method on a poisoned mutex:
\* try!(..) returns the error, .unwrap() panics
OnPoison(o) == IF o \in {Untimed, "get"} THEN "err" ELSE "panic"

Init ==
    /\ unit \in BOOLEAN
    /\ value = 0
    /\ lockHolder = NoThread
    /\ poisoned = FALSE
    /\ pc = [t \in Threads |-> "idle"]
    /\ op = [t \in Threads |-> "none"]
    /\ pred = [t \in Threads |-> {}]
    /\ arg = [t \in Threads |-> 0]
    /\ mode = [t \in Threads |-> "none"]
    /\ timeout = [t \in Threads |-> 0]
    /\ remaining = [t \in Threads |-> 0]
    /\ since = [t \in Threads |-> 0]
    /\ result = [t \in Threads |-> "none"]
    /\ got = [t \in Threads |-> NoValue]
    /\ woke = [t \in Threads |-> FALSE]
    /\ age = [t \in Threads |-> 0]
    /\ seen = [t \in Threads |-> FALSE]
    /\ hit = [t \in Threads |-> FALSE]
    /\ asked = [t \in Threads |-> 0]
    /\ atPoison = [t \in Threads |-> FALSE]

\* ---- the callers ----

\* A thread that is in no method, owns no guard and has not panicked may call.
CanCall(t) ==
    /\ pc[t] \in {"idle", "done"}
    /\ result[t] # "panic"
    /\ lockHolder # t

\* The state of thread t on entry of method o.
Enter(t, o, p, a, m, ms) ==
    /\ o \in Role(t)
    /\ pc' = [pc EXCEPT ![t] = "lock"]
    /\ op' = [op EXCEPT ![t] = o]
    /\ pred' = [pred EXCEPT ![t] = p]
    /\ arg' = [arg EXCEPT ![t] = a]
    /\ mode' = [mode EXCEPT ![t] = m]
    /\ timeout' = [timeout EXCEPT ![t] = ms]
    /\ remaining' = [remaining EXCEPT ![t] = 0]
    /\ since' = [since EXCEPT ![t] = 0]
    /\ result' = [result EXCEPT ![t] = "none"]
    /\ got' = [got EXCEPT ![t] = NoValue]
    /\ woke' = [woke EXCEPT ![t] = FALSE]
    /\ age' = [age EXCEPT ![t] = 0]
    /\ seen' = [seen EXCEPT ![t] = FALSE]
    /\ hit' = [hit EXCEPT ![t] = FALSE]
    /\ asked' = [asked EXCEPT ![t] = 0]
    /\ atPoison' = [atPoison EXCEPT ![t] = poisoned]
    /\ UNCHANGED cellVars

\* The state of thread t when its method is over with outcome r.  What the
\* method leaves behind is its outcome; the arguments of a timed wait are
\* kept for the properties that relate its outcome to later events.
Leave(t, r) ==
    /\ pc' = [pc EXCEPT ![t] = "done"]
    /\ result' = [result EXCEPT ![t] = r]
    /\ got' = [got EXCEPT ![t] = NoValue]
    /\ pred' = [pred EXCEPT ![t] = IF op[t] = Timed THEN @ ELSE {}]
    /\ arg' = [arg EXCEPT ![t] = 0]
    /\ mode' = [mode EXCEPT ![t] = "none"]
    /\ remaining' = [remaining EXCEPT ![t] = 0]
    /\ since' = [since EXCEPT ![t] = 0]
    /\ woke' = [woke EXCEPT ![t] = FALSE]
    /\ hit' = [hit EXCEPT ![t] = FALSE]
    /\ asked' = [asked EXCEPT ![t] = 0]
    /\ UNCHANGED <<op, timeout, age, seen, atPoison>>

\* The slices a caller passes; the closure made of a slice is all the wait
\* keeps of it.
Slices == UNION {[1..n -> Vals] : n \in 0..MaxSlice}

CallSet(t) ==
    /\ CanCall(t)
    /\ \E v \in Vals, m \in {"One", "All"} : Enter(t, "set", {}, v, m, 0)

\* a caller that always passes Notify::All
CallSetAll(t) ==
    /\ CanCall(t)
    /\ \E v \in Vals : Enter(t, "set", {}, v, "All", 0)

CallGet(t) ==
    /\ CanCall(t)
    /\ Enter(t, "get", {}, 0, "none", 0)

CallWaitFor(t) ==
    /\ CanCall(t)
    /\ \E f \in {WaitForPred(e) : e \in Vals} : Enter(t, Untimed, f, 0, "none", 0)

CallWaitForIn(t) ==
    /\ CanCall(t)
    /\ \E f \in {WaitForInPred(s) : s \in Slices} : Enter(t, Untimed, f, 0, "none", 0)

CallWaitForCondition(t) ==
    /\ CanCall(t)
    /\ \E f \in SUBSET Vals : Enter(t, Untimed, f, 0, "none", 0)

CallWaitForMs(t) ==
    /\ CanCall(t)
    /\ \E f \in {WaitForPred(e) : e \in Vals}, ms \in Timeouts :
           Enter(t, Timed, f, 0, "none", ms)

CallWaitForInMs(t) ==
    /\ CanCall(t)
    /\ \E f \in {WaitForInPred(s) : s \in Slices}, ms \in Timeouts :
           Enter(t, Timed, f, 0, "none", ms)

CallWaitForConditionMs(t) ==
    /\ CanCall(t)
    /\ \E f \in SUBSET Vals, ms \in Timeouts : Enter(t, Timed, f, 0, "none", ms)

\* wait_ms exists on ConditionVariable<()> only; its timeout is a u32
CallWaitMs(t) ==
    /\ CanCall(t)
    /\ unit
    /\ \E ms \in 0..MaxTimeout : Enter(t, "wait_ms", {}, 0, "none", ms)

\* ---- lock.lock() ----

\* a wait that gives the mutex up before it blocks in cvar.wait
MutexFreeBeforeWait ==
    lockHolder = NoThread \/ \E t \in Threads : lockHolder = t /\ pc[t] = "wait"

\* a lock that never blocks
MutexFreeAlways == TRUE

\* a set that drops its guard right after the write
MutexFreeOnceWritten ==
    lockHolder = NoThread \/ \E t \in Threads : lockHolder = t /\ pc[t] = "notify"

\* the mutex can be taken: no thread owns a guard
MutexFree == lockHolder = NoThread

\* The first step after a successful lock, per method.
FirstStep(o) ==
    IF o = "set" THEN "write"
    ELSE IF o = "get" THEN "clone"
    ELSE IF o = "wait_ms" THEN "wait"
    ELSE "check"

\* lock.lock(): blocks while another thread owns the guard.  On a poisoned
\* mutex try! returns Err(PoisonError(guard)) to the caller, who then owns the
\* guard; unwrap() panics and the guard is dropped by the unwinding.  The
\* timed wait goes on to let mut remaining_ms = timeout_ms.
Lock(t) ==
    /\ pc[t] = "lock"
    /\ MutexFree
    /\ IF poisoned
       THEN /\ Leave(t, OnPoison(op[t]))
            /\ lockHolder' = IF OnPoison(op[t]) = "err" THEN t ELSE NoThread
       ELSE /\ pc' = [pc EXCEPT ![t] = FirstStep(op[t])]
            /\ lockHolder' = t
            /\ remaining' = [remaining EXCEPT ![t] =
                                IF op[t] = Timed THEN timeout[t] ELSE @]
            /\ UNCHANGED <<argVars, histVars, since, result, got>>
    /\ UNCHANGED <<unit, value, poisoned>>

\* ---- set ----

\* *data = value
SetWrite(t) ==
    /\ pc[t] = "write"
    /\ value' = arg[t]
    /\ pc' = [pc EXCEPT ![t] = "notify"]
    /\ hit' = [u \in Threads |->
                   \/ hit[u]
                   \/ (op[u] = Untimed /\ pc[u] \in {"sleep", "woken"}
                          /\ arg[t] \in pred[u])]
    /\ UNCHANGED <<unit, lockHolder, poisoned, remaining, since, result, got>>
    /\ UNCHANGED <<argVars, woke, age, seen, asked, atPoison>>

\* match notify { One => cvar.notify_one(), All => cvar.notify_all() }:
\* the guard is still alive here
SetNotify(t) ==
    /\ pc[t] = "notify"
    /\ \E W \in NotifyTargets(mode[t]) :
           pc' = [u \in Threads |->
                    IF u = t THEN "unlock"
                    ELSE IF u \in W THEN "woken" ELSE pc[u]]
    /\ seen' = [u \in Threads |->
                    \/ seen[u]
                    \/ (op[u] = Timed /\ timeout[u] > 0)
                    \/ (op[u] = "wait_ms" /\ pc[u] \in {"sleep", "woken", "expired"})]
    /\ UNCHANGED <<cellVars, argVars, woke, age, hit, asked, atPoison>>
    /\ UNCHANGED <<remaining, since, result, got>>

\* ---- get ----

\* a clone that yields a fresh T instead of a copy
CloneFresh(v) == 0

\* T::clone, for the plain values the model stores
Clone(v) == v

\* Ok(data.clone())
GetClone(t) ==
    /\ pc[t] = "clone"
    /\ pc' = [pc EXCEPT ![t] = "unlock"]
    /\ result' = [result EXCEPT ![t] = "ok"]
    /\ got' = [got EXCEPT ![t] = Clone(value)]
    /\ UNCHANGED <<cellVars, argVars, histVars, remaining, since>>

\* ---- the end of set, get and the wait_for* methods: the guard, a local,
\* is dropped as the method returns ----
Return(t) ==
    /\ pc[t] = "unlock"
    /\ lockHolder' = NoThread
    /\ Leave(t, IF op[t] = "set" THEN "ok" ELSE result[t])
    /\ UNCHANGED <<unit, value, poisoned>>

\* ---- wait_for_condition (wait_for and wait_for_in call it) ----

\* while !cond_func(&*actual) { .. }  Ok(())
WaitCheck(t) ==
    /\ pc[t] = "check"
    /\ op[t] = Untimed
    /\ IF LoopCond(t)
       THEN /\ pc' = [pc EXCEPT ![t] = "wait"]
            /\ UNCHANGED <<result, got>>
       ELSE /\ pc' = [pc EXCEPT ![t] = "unlock"]
            /\ result' = [result EXCEPT ![t] = "ok"]
            /\ UNCHANGED got
    /\ UNCHANGED <<cellVars, argVars, histVars, remaining, since>>

\* ---- wait_for_condition_ms (wait_for_ms and wait_for_in_ms call it) ----

\* while !cond_func(&*actual) && remaining_ms > 0 { .. }  Ok(cond_func(&*actual))
TimedCheck(t) ==
    /\ pc[t] = "check"
    /\ op[t] = Timed
    /\ IF TimedLoopCond(t)
       THEN /\ pc' = [pc EXCEPT ![t] = "wait"]
            /\ UNCHANGED <<result, got>>
       ELSE /\ pc' = [pc EXCEPT ![t] = "unlock"]
            /\ result' = [result EXCEPT ![t] = TimedResult(t)]
            /\ UNCHANGED got
    /\ UNCHANGED <<cellVars, argVars, histVars, remaining, since>>

\* ---- cvar.wait(actual), cvar.wait_timeout_ms(actual, ..) ----

\* The call: the mutex is released and the thread blocked in one step.  A
\* timed wait reads before_ms right before it.
Sleep(t) ==
    /\ pc[t] = "wait"
    /\ lockHolder' = NoThread
    /\ pc' = [pc EXCEPT ![t] = "sleep"]
    /\ since' = [since EXCEPT ![t] = 0]
    /\ asked' = [asked EXCEPT ![t] =
                    IF op[t] = Timed THEN Min(@ + SleepMs(t), AskedCap) ELSE @]
    /\ UNCHANGED <<unit, value, poisoned, remaining, result, got>>
    /\ UNCHANGED <<argVars, woke, age, seen, hit, atPoison>>

\* A wakeup nobody sent.
SpuriousWake(t) ==
    /\ pc[t] = "sleep"
    /\ pc' = [pc EXCEPT ![t] = "woken"]
    /\ UNCHANGED <<cellVars, argVars, histVars, remaining, since, result, got>>

\* The timeout of wait_timeout_ms runs out.
Timeout(t) ==
    /\ pc[t] = "sleep"
    /\ op[t] \in {Timed, "wait_ms"}
    /\ TimedOut(t)
    /\ pc' = [pc EXCEPT ![t] = "expired"]
    /\ UNCHANGED <<cellVars, argVars, histVars, remaining, since, result, got>>

\* The woken thread takes the mutex again and the wait returns: Err with the
\* guard when the mutex is poisoned (try! hands it to the caller, wait_ms
\* returns it as it is), else the guard.  A timed wait reads after_ms and
\* charges the time to remaining_ms; wait_ms returns the guard and the flag
\* to its caller.
Reacquire(t) ==
    /\ pc[t] \in {"woken", "expired"}
    /\ MutexFree
    /\ lockHolder' = t
    /\ IF poisoned
       THEN Leave(t, "err")
       ELSE IF op[t] = "wait_ms"
       THEN Leave(t, IF pc[t] = "expired" THEN "false" ELSE "true")
       ELSE /\ pc' = [pc EXCEPT ![t] = "check"]
            /\ remaining' = [remaining EXCEPT ![t] =
                               IF op[t] = Timed THEN NewRemaining(@, since[t]) ELSE @]
            /\ since' = [since EXCEPT ![t] = 0]
            /\ woke' = [woke EXCEPT ![t] = (op[t] = Untimed)]
            /\ UNCHANGED <<argVars, result, got, age, seen, hit, asked, atPoison>>
    /\ UNCHANGED <<unit, value, poisoned>>

\* ---- the environment ----

\* The positions where code of the caller runs under the lock: the drop of
\* the old value in set, T::clone in get, cond_func / PartialEq::eq in the
\* waits, and the caller itself while it owns a returned guard.
UserCode == {"write", "clone", "check", "done"}

\* That code panics: the guard is dropped by the unwinding, which poisons
\* the mutex, and the thread is gone.
Panic(t) ==
    /\ lockHolder = t
    /\ pc[t] \in UserCode
    /\ poisoned' = TRUE
    /\ lockHolder' = NoThread
    /\ Leave(t, "panic")
    /\ UNCHANGED <<unit, value>>

\* The caller drops the guard a method returned to it (inside the tuple of
\* wait_ms or inside a PoisonError).
DropGuard(t) ==
    /\ pc[t] = "done"
    /\ lockHolder = t
    /\ lockHolder' = NoThread
    /\ UNCHANGED <<unit, value, poisoned, pc, remaining, since, result, got>>
    /\ UNCHANGED <<argVars, histVars>>

\* The monotonic clock advances by TickUs microseconds.
Tick ==
    /\ since' = [t \in Threads |->
                   IF pc[t] \in {"sleep", "woken", "expired"}
                      /\ op[t] \in {Timed, "wait_ms"}
                   THEN Min(since[t] + 1, TicksFor(MaxTimeout)) ELSE since[t]]
    /\ age' = [t \in Threads |->
                 IF op[t] = Timed
                 THEN Min(age[t] + 1, TicksFor(timeout[t])) ELSE age[t]]
    /\ UNCHANGED <<cellVars, argVars, pc, remaining, result, got>>
    /\ UNCHANGED <<woke, seen, hit, asked, atPoison>>

Call(t) ==
    \/ CallSet(t)
    \/ CallGet(t)
    \/ CallWaitFor(t)
    \/ CallWaitForIn(t)
    \/ CallWaitForCondition(t)
    \/ CallWaitForMs(t)
    \/ CallWaitForInMs(t)
    \/ CallWaitForConditionMs(t)
    \/ CallWaitMs(t)

\* The steps a running method takes by itself.
Step(t) ==
    \/ SetWrite(t)
    \/ SetNotify(t)
    \/ GetClone(t)
    \/ WaitCheck(t)
    \/ TimedCheck(t)
    \/ Sleep(t)
    \/ Return(t)

Next ==
    \/ \E t \in Pair : Call(t)
    \/ \E t \in Threads : Lock(t)
    \/ \E t \in Threads : Step(t)
    \/ \E t \in Threads : Reacquire(t)
    \/ \E t \in Threads : SpuriousWake(t)
    \/ \E t \in Threads : Timeout(t)
    \/ \E t \in Threads : Panic(t)
    \/ \E t \in Threads : DropGuard(t)
    \/ Tick

Spec == Init /\ [][Next]_vars

TypeOK ==
    /\ unit \in BOOLEAN
    /\ value \in Vals
    /\ lockHolder \in Threads \cup {NoThread}
    /\ poisoned \in BOOLEAN
    /\ \A t \in Threads :
         /\ pred[t] \subseteq Vals
         /\ timeout[t] \in Timeouts
         /\ since[t] \in 0..TicksFor(MaxTimeout)
         /\ age[t] \in 0..TicksFor(MaxTimeout)
         /\ remaining[t] <= MaxTimeout
         /\ got[t] \in Vals \cup {NoValue}
         /\ asked[t] \in 0..AskedCap
         /\ hit[t] \in BOOLEAN


\* The clock advances while thread t is inside wait_timeout_ms.
TimePasses(t) == Tick /\ since'[t] # since[t]

\* The scheduler is fair to every running method, the mutex is eventually
\* handed to a thread that keeps asking for it, a caller drops the guard it
\* was handed, and time does not stop for a thread that keeps sleeping
\* (infinitely many wake-ups do not fit between two readings of the clock).
\* Nothing obliges a caller to call, user code to panic or a spurious wakeup
\* to happen.  A thread is at one position at a time, so the fairness of its
\* steps is stated for their disjunction.
Fairness ==
    \A t \in Threads :
        /\ WF_vars(Step(t) \/ Timeout(t) \/ DropGuard(t))
        /\ SF_vars(Lock(t) \/ Reacquire(t))
        /\ SF_vars(TimePasses(t))

FairSpec == Spec /\ Fairness

\* ---- the cell used without timeouts: set, get, wait_for, wait_for_in and
\* wait_for_condition.  No step of these methods reads the clock. ----

WaitCall(t) ==
    \/ CallSet(t)
    \/ CallGet(t)
    \/ CallWaitFor(t)
    \/ CallWaitForIn(t)
    \/ CallWaitForCondition(t)

WaitStep(t) ==
    \/ SetWrite(t)
    \/ SetNotify(t)
    \/ GetClone(t)
    \/ WaitCheck(t)
    \/ Sleep(t)
    \/ Return(t)

WaitNext ==
    \/ \E t \in Pair : WaitCall(t)
    \/ \E t \in Threads : Lock(t)
    \/ \E t \in Threads : WaitStep(t)
    \/ \E t \in Threads : Reacquire(t)
    \/ \E t \in Threads : SpuriousWake(t)
    \/ \E t \in Threads : Panic(t)
    \/ \E t \in Threads : DropGuard(t)

WaitFairness ==
    \A t \in Threads :
        /\ WF_vars(WaitStep(t) \/ DropGuard(t))
        /\ SF_vars(Lock(t) \/ Reacquire(t))

WaitSpec == Init /\ [][WaitNext]_vars /\ WaitFairness

\* ---- several waiters on one cell: t1 and t3 block in wait_for while t2
\* sets the cell ----

PoolCall(t) ==
    \/ CallSet(t)
    \/ CallWaitFor(t)

PoolStep(t) ==
    \/ SetWrite(t)
    \/ SetNotify(t)
    \/ WaitCheck(t)
    \/ Sleep(t)
    \/ Return(t)

PoolNext ==
    \/ \E t \in Threads : PoolCall(t)
    \/ \E t \in Threads : Lock(t)
    \/ \E t \in Threads : PoolStep(t)
    \/ \E t \in Threads : Reacquire(t)
    \/ \E t \in Threads : SpuriousWake(t)

PoolFairness ==
    \A t \in Threads :
        /\ WF_vars(PoolStep(t))
        /\ SF_vars(Lock(t) \/ Reacquire(t))

PoolSpec == Init /\ [][PoolNext]_vars /\ PoolFairness

\* ---- several waiters on a cell that is only set with Notify::All ----

AllCall(t) ==
    \/ CallSetAll(t)
    \/ CallWaitFor(t)
    \/ CallWaitForIn(t)
    \/ CallWaitForCondition(t)

AllNext ==
    \/ \E t \in Threads : AllCall(t)
    \/ \E t \in Threads : Lock(t)
    \/ \E t \in Threads : PoolStep(t)
    \/ \E t \in Threads : Reacquire(t)
    \/ \E t \in Threads : SpuriousWake(t)

AllSpec == Init /\ [][AllNext]_vars

\* ---- properties ----

\* The thread is inside the method, between its call and its return.
Running(t) == pc[t] \notin {"idle", "done"}

\* C2 (No-premature-wake): an untimed wait has the outcome Ok(()) only
\* while it holds the lock on a value its predicate accepts, and a waiter
\* that checks a value its predicate rejects goes (back) to cvar.wait
\* instead of returning.
ReturnsOnlyOnMatch ==
    \A t \in Threads :
        (op[t] = Untimed /\ pc[t] = "unlock")
            => (result[t] = "ok" /\ lockHolder = t /\ value \in pred[t])

BackToSleep(t) ==
    (op[t] = Untimed /\ pc[t] = "check" /\ value \notin pred[t] /\ pc'[t] # "check")
        => (pc'[t] = "wait" \/ result'[t] = "panic")

OkOnlyFromCheck(t) ==
    (op'[t] = Untimed /\ result[t] # "ok" /\ result'[t] = "ok")
        => (pc[t] = "check" /\ value \in pred[t])

NoPrematureWake ==
    /\ []ReturnsOnlyOnMatch
    /\ [][\A t \in Threads : BackToSleep(t) /\ OkOnlyFromCheck(t)]_vars

\* C2's case: a waiter that slept, was woken, checked and sleeps again.
NoPrematureWakeWitness ==
    \E t \in Threads : op[t] = Untimed /\ woke[t] /\ pc[t] = "sleep"

\* C3 (Timeout budget honored), the claim as stated: a timed wait whose
\* predicate accepts no value and whose timeout is T > 0 has the outcome
\* Ok(false) only when at least T milliseconds have passed since its call.
BudgetHonored ==
    \A t \in Threads :
        (op[t] = Timed /\ pc[t] = "unlock" /\ pred[t] = {}
         /\ timeout[t] > 0 /\ result[t] = "false")
            => age[t] * TickUs >= timeout[t] * UsPerMs

\* C4 (Timed-wait result): when the timed wait has its outcome it holds the
\* lock, the outcome is Ok(true) exactly when the predicate accepts the
\* stored value, and Ok(false) comes with a budget that is used up.
TimedWaitResult ==
    \A t \in Threads :
        (op[t] = Timed /\ pc[t] = "unlock")
            => /\ lockHolder = t
               /\ result[t] \in {"true", "false"}
               /\ (result[t] = "true") <=> (value \in pred[t])
               /\ (result[t] = "false") => (remaining[t] <= 0)

\* C4's case: Ok(false) after a sleep that used up the budget.
TimedWaitResultWitness ==
    \E t \in Threads :
        op[t] = Timed /\ pc[t] = "unlock" /\ result[t] = "false" /\ remaining[t] < 0

\* C5 (Timeout success race), the claim as stated: when set(expected, All)
\* writes less than T milliseconds after the call of wait_for_ms(expected, T)
\* and no other set has run since that call, the wait does not return
\* anything but Ok(true).
TimeoutSuccessRace ==
    \A s \in Threads, w \in Threads :
        (/\ pc[s] = "notify" /\ mode[s] = "All"
         /\ op[w] = Timed /\ pred[w] = {arg[s]} /\ timeout[w] > 0
         /\ ~seen[w]
         /\ age[w] * TickUs < timeout[w] * UsPerMs
         /\ pc[w] = "done")
            => result[w] = "true"

\* The methods C7 lists.
Listed == {"set", "get", Untimed, Timed}

\* C7 (Poison propagation): a method called on a poisoned mutex never gets
\* past lock.lock(), so it neither reads nor writes the value, and when it is
\* over it has failed with the PoisonError, returned or as a panic; the value
\* of a poisoned cell never changes.
FailsWhenPoisoned ==
    \A t \in Threads :
        (atPoison[t] /\ op[t] \in Listed)
            => /\ pc[t] \in {"lock", "done"}
               /\ pc[t] = "done" => result[t] \in {"err", "panic"}

PoisonPropagation ==
    /\ []FailsWhenPoisoned
    /\ [][poisoned => (poisoned' /\ value' = value)]_vars

\* C7's case: a call made after the poisoning has failed.
PoisonPropagationWitness ==
    \E t \in Threads :
        atPoison[t] /\ op[t] \in Listed /\ pc[t] = "done" /\ result[t] = "err"

\* C8, the claim as stated: a timed wait called on a poisoned mutex returns
\* Err to its caller.
TimedWaitReturnsFault ==
    \A t \in Threads :
        (op[t] = Timed /\ atPoison[t] /\ pc[t] = "done") => result[t] = "err"

\* C9, the claim as stated, for the calls that return without a fault: a
\* thread whose method has returned does not hold the lock.
NoLockAfterReturn ==
    \A t \in Threads :
        (pc[t] = "done" /\ result[t] \in {"ok", "true", "false"}) => lockHolder # t


\* C1 (Wake-on-match): once set(expected, All) has written expected while a
\* wait_for(expected) is running -- before the waiter's first check, or while
\* it is asleep; the lock keeps it from writing between a check and the
\* sleep -- the waiter returns Ok(()), unless a later set replaces the value
\* or the mutex gets poisoned.
WakeOnMatch ==
    \A s \in Threads : \A w \in Threads \ {s} :
        (/\ pc[s] = "notify" /\ mode[s] = "All"
         /\ op[w] = Untimed /\ Running(w) /\ pred[w] = {arg[s]})
            ~> (result[w] = "ok" \/ value \notin pred[w] \/ poisoned)

\* C1's case: the waiter is asleep when set(expected, All) has written.
WakeOnMatchWitness ==
    \E s \in Threads, w \in Threads :
        /\ pc[s] = "notify" /\ mode[s] = "All"
        /\ op[w] = Untimed /\ pc[w] = "sleep" /\ pred[w] = {arg[s]}

\* C6 (Timed wait terminates): a timed wait returns whatever the other
\* threads do, and on a mutex that is not poisoned what it returns is Ok(true)
\* or Ok(false), with Ok(false) when the predicate rejects the value of its
\* last check.
TimedOutcome ==
    \A t \in Threads :
        (op[t] = Timed /\ pc[t] = "done" /\ ~poisoned) => result[t] \in {"true", "false"}

FalseOnExpiry(t) ==
    (op[t] = Timed /\ pc[t] = "check" /\ pc'[t] = "unlock" /\ value \notin pred[t])
        => result'[t] = "false"

TimedWaitTerminates ==
    /\ \A t \in Threads : (op[t] = Timed /\ Running(t)) ~> (pc[t] = "done")
    /\ []TimedOutcome
    /\ [][\A t \in Threads : FalseOnExpiry(t)]_vars

\* C6's case: the wait is over with Ok(false) and no set has run since its call.
TimedWaitTerminatesWitness ==
    \E t \in Threads :
        /\ op[t] = Timed /\ pc[t] = "done" /\ result[t] = "false"
        /\ timeout[t] > 0 /\ ~seen[t]

\* C10 (Membership wait): wait_for_in(S) gets the outcome Ok(()) in a step
\* that checks, under the lock, a stored value that is in S, and in no other
\* step; and once set(v, All) has written a v in S while the wait is running,
\* the wait returns, unless a later set stores a value outside S or the mutex
\* gets poisoned.
OkIffMember(t) ==
    (op[t] = Untimed /\ pc[t] = "check" /\ lockHolder = t /\ pc'[t] # "check")
        => ((result'[t] = "ok") <=> (value \in pred[t] /\ pc'[t] = "unlock"))

MembershipWait ==
    /\ [][\A t \in Threads : OkIffMember(t) /\ OkOnlyFromCheck(t)]_vars
    /\ \A s \in Threads : \A w \in Threads \ {s} :
         (/\ pc[s] = "notify" /\ mode[s] = "All"
          /\ op[w] = Untimed /\ Running(w) /\ arg[s] \in pred[w])
             ~> (result[w] = "ok" \/ value \notin pred[w] \/ poisoned)

\* C10's case: a waiter for a set of two values is asleep when set(v, All)
\* has written one of them.
MembershipWaitWitness ==
    \E s \in Threads, w \in Threads :
        /\ pc[s] = "notify" /\ mode[s] = "All"
        /\ op[w] = Untimed /\ pc[w] = "sleep"
        /\ arg[s] \in pred[w] /\ Cardinality(pred[w]) > 1

\* C11 (Snapshot consistency): the value get is returning is the value
\* stored while it holds the lock; the stored value changes only in the write
\* of a set, which holds the lock, and becomes the argument of that set, so
\* it is at any time the construction value or the argument of a set that
\* has written; no step of get or of a wait changes it.
GetReturnsStored ==
    \A t \in Threads :
        (op[t] = "get" /\ pc[t] = "unlock") => (lockHolder = t /\ got[t] = value)

OnlySetWrites ==
    value' # value
        => \E t \in Threads :
               /\ op[t] = "set" /\ pc[t] = "write" /\ lockHolder = t
               /\ pc'[t] = "notify" /\ value' = arg[t]

SnapshotConsistency ==
    /\ []GetReturnsStored
    /\ [][OnlySetWrites]_vars

\* C11's case: get is returning a value that a set has stored.
SnapshotConsistencyWitness ==
    \E t \in Threads :
        op[t] = "get" /\ pc[t] = "unlock" /\ got[t] = value /\ value # 0

\* C12 (Notification modes): the notification of a set with Notify::One
\* takes exactly one thread out of the threads asleep on the Condvar when
\* there is one and none otherwise, that of a set with Notify::All takes all
\* of them out; a thread that was woken takes the lock again and goes to the
\* check of its predicate (or returns the PoisonError), and Ok(()) comes from
\* a check only.
NotifyWakes(s) ==
    (pc[s] = "notify" /\ pc'[s] # "notify")
        => /\ mode[s] = "One" =>
                 Cardinality(Asleep \ Asleep') = (IF Asleep = {} THEN 0 ELSE 1)
           /\ mode[s] = "All" => Asleep \cap Asleep' = {}
           /\ \A w \in Asleep \ Asleep' : pc'[w] = "woken"

WokenRechecks(w) ==
    (op[w] = Untimed /\ pc[w] = "woken" /\ pc'[w] # "woken")
        => /\ lockHolder' = w
           /\ pc'[w] = "check" \/ result'[w] = "err"
           /\ result'[w] # "ok"

NotificationModes ==
    [][\A t \in Threads : NotifyWakes(t) /\ WokenRechecks(t)]_vars

\* C12's case: two threads were asleep, a set with Notify::One has notified,
\* one of them is woken and the other still asleep.
NotificationModesWitness ==
    \E s \in Threads, w \in Threads, u \in Threads :
        /\ op[s] = "set" /\ mode[s] = "One" /\ pc[s] = "unlock"
        /\ pc[w] = "woken" /\ pc[u] = "sleep"

\* C13 (Timeout is an upper bound on sleeping), the claim as stated: the
\* timeouts a timed wait with timeout T > 0 has passed to wait_timeout_ms
\* add up to at most T milliseconds.
SleepSumWithinTimeout ==
    \A t \in Threads :
        (op[t] = Timed /\ timeout[t] > 0) => asked[t] <= timeout[t]

\* C13 as amended: each sleep of a timed wait with timeout T > 0 is asked
\* for no more than the remaining budget, which is positive, at most T and
\* never grows while the wait runs.
SleepWithinRemaining ==
    \A t \in Threads :
        (op[t] = Timed /\ pc[t] \in {"sleep", "woken", "expired"})
            => /\ 0 < remaining[t]
               /\ SleepMs(t) <= remaining[t]
               /\ remaining[t] <= timeout[t]

BudgetShrinks(t) ==
    (op[t] = Timed /\ pc[t] \notin {"idle", "done", "lock"} /\ pc'[t] # "done")
        => remaining'[t] <= remaining[t]

SleepWithinBudget ==
    /\ []SleepWithinRemaining
    /\ [][\A t \in Threads : BudgetShrinks(t)]_vars

\* C13's case: a timed wait asleep again after a sleep that was cut short
\* before the clock moved, so that it has asked for more than T in total.
SleepWithinBudgetWitness ==
    \E t \in Threads :
        op[t] = Timed /\ pc[t] = "sleep" /\ asked[t] > timeout[t]

\* C14, the claim as stated: wait_ms reports 'notified' (the flag true) only
\* when a set has run on the cell while it was asleep.
WaitMsNotifiedBySet ==
    \A t \in Threads :
        (op[t] = "wait_ms" /\ pc[t] = "done" /\ result[t] = "true") => seen[t]

\* C15 (Atomic check-then-sleep): on a cell that is only set with
\* Notify::All, a waiter is asleep in cvar.wait on a value its predicate
\* accepts only while the set that wrote the value is between its write and
\* its notification, which then wakes the waiter: no set comes between the
\* check of a waiter and its sleep.
NoLostWakeup ==
    \A w \in Threads :
        (op[w] = Untimed /\ pc[w] = "sleep" /\ value \in pred[w])
            => \E s \in Threads \ {w} :
                   op[s] = "set" /\ pc[s] = "notify" /\ lockHolder = s

\* C15's case: two waiters are asleep, a set has written a value that one
\* of them waits for and has not notified yet.
NoLostWakeupWitness ==
    \E w \in Threads, u \in Threads, s \in Threads :
        /\ w # u
        /\ pc[w] = "sleep" /\ pc[u] = "sleep" /\ value \in pred[w]
        /\ pc[s] = "notify"

\* The positions at which a method reads or writes the value: *data = value,
\* data.clone(), cond_func(&*actual) (of the loops and of the timed wait's
\* result); and those at which it owns the guard.
Accessing == {"write", "clone", "check"}
Guarded == Accessing \cup {"notify", "wait", "unlock"}

\* C16 (Mutual exclusion of value access): the threads that own a guard, by
\* their position in a method or because a method has returned the guard to
\* them, are at most one, and a thread that is reading or writing the value
\* is that one.
Owners == {t \in Threads : pc[t] \in Guarded \/ lockHolder = t}

MutualExclusion ==
    /\ Cardinality(Owners) <= 1
    /\ \A t \in Threads : pc[t] \in Accessing => lockHolder = t

\* C16's case: a timed wait is at its last check, its budget used up, while
\* another thread is blocked in lock.lock().
MutualExclusionWitness ==
    \E t \in Threads, u \in Threads :
        /\ op[t] = Timed /\ pc[t] = "check" /\ remaining[t] <= 0 /\ timeout[t] > 0
        /\ pc[u] = "lock"

\* C17 (Order of steps in set), the claim as stated: when set is about to
\* call notify_one / notify_all it does not hold the lock any more.
NotifyAfterUnlock ==
    \A s \in Threads : (op[s] = "set" /\ pc[s] = "notify") => lockHolder # s

\* C17 as amended: set takes the lock, replaces the value, notifies the
\* waiters while it still holds the lock, and releases the lock when it
\* returns.
SetHoldsLock ==
    \A s \in Threads :
        (op[s] = "set" /\ pc[s] \in {"write", "notify", "unlock"}) => lockHolder = s

SetOrder(s) ==
    /\ (op[s] = "set" /\ pc[s] = "lock" /\ pc'[s] # "lock")
           => (pc'[s] = "write" \/ result'[s] = "panic")
    /\ (pc[s] = "write" /\ pc'[s] # "write")
           => (pc'[s] = "notify" \/ result'[s] = "panic")
    /\ (pc[s] = "notify" /\ pc'[s] # "notify")
           => (pc'[s] = "unlock" /\ lockHolder' = s /\ value' = value)
    /\ (op[s] = "set" /\ pc[s] = "unlock" /\ pc'[s] # "unlock")
           => (pc'[s] = "done" /\ result'[s] = "ok" /\ lockHolder' = NoThread)

NotifyUnderLock ==
    /\ []SetHoldsLock
    /\ [][\A s \in Threads : SetOrder(s)]_vars

\* C17's case: set has notified and still holds the lock, which the waiter
\* it woke now needs.
NotifyUnderLockWitness ==
    \E s \in Threads, w \in Threads :
        /\ op[s] = "set" /\ pc[s] = "unlock" /\ lockHolder = s
        /\ pc[w] = "woken" /\ value \in pred[w]

\* C18 (Non-positive timeout): a timed wait called with timeout_ms <= 0 on
\* a mutex that is not poisoned never gets to wait_timeout_ms, and its one
\* check returns Ok(true) when the predicate accepts the stored value and
\* Ok(false) when it does not; with any timeout, a first check that finds
\* the predicate true returns Ok(true) without a sleep.
NeverSleeps ==
    \A t \in Threads :
        (op[t] = Timed /\ timeout[t] <= 0)
            => /\ pc[t] \notin {"wait", "sleep", "woken", "expired"}
               /\ asked[t] = 0
               /\ remaining[t] <= 0

OneCheck(t) ==
    (/\ op[t] = Timed /\ pc[t] = "check" /\ pc'[t] # "check"
     /\ asked[t] = 0
     /\ timeout[t] <= 0 \/ value \in pred[t])
        => \/ result'[t] = "panic"
           \/ /\ pc'[t] = "unlock"
              /\ asked'[t] = 0
              /\ result'[t] = (IF value \in pred[t] THEN "true" ELSE "false")

NonPositiveTimeout ==
    /\ []NeverSleeps
    /\ [][\A t \in Threads : OneCheck(t)]_vars

\* C18's case: a timed wait with a negative timeout returns Ok(false) on a
\* value its predicate rejects.
NonPositiveTimeoutWitness ==
    \E t \in Threads :
        /\ op[t] = Timed /\ timeout[t] < 0 /\ pc[t] = "unlock"
        /\ result[t] = "false" /\ value \notin pred[t] /\ pred[t] # {}

\* C19 (Liveness under Notify::One with several waiters), the claim as
\* stated, in the form a finite run refutes: a wake-up comes from a
\* notification or is spurious, so that every blocked thread whose predicate
\* accepts v returns after set(v, One) without a later set and without
\* spurious wakeups means that the notification of set(v, One) wakes every
\* thread asleep on the cell whose predicate accepts v.
OneWakesMatching(s) ==
    (pc[s] = "notify" /\ mode[s] = "One" /\ pc'[s] # "notify")
        => \A w \in Asleep :
               (op[w] = Untimed /\ value \in pred[w]) => pc'[w] = "woken"

OneWakesEveryMatch == [][\A s \in Threads : OneWakesMatching(s)]_vars

\* C19 as amended: after set(v, One), a thread blocked in wait_for* whose
\* predicate accepts v returns when it is the only thread asleep on the cell,
\* unless a later set stores a value its predicate rejects.
OneWakesOnly ==
    \A s \in Threads : \A w \in Threads \ {s} :
        (/\ pc[s] = "notify" /\ mode[s] = "One"
         /\ op[w] = Untimed /\ pc[w] = "sleep" /\ arg[s] \in pred[w]
         /\ Asleep = {w})
            ~> (result[w] = "ok" \/ value \notin pred[w] \/ poisoned)

\* C19's case: set(v, One) is about to notify, the one thread asleep waits
\* for v, and the other waiter is in its call but not asleep.
OneWakesOnlyWitness ==
    \E s \in Threads, w \in Threads, u \in Threads :
        /\ pc[s] = "notify" /\ mode[s] = "One"
        /\ op[w] = Untimed /\ pc[w] = "sleep" /\ arg[s] \in pred[w]
        /\ Asleep = {w}
        /\ u # w /\ op[u] = Untimed /\ Running(u)

\* C20 (Transient values), the claim as stated: a wait_for(expected) that
\* comes to a check after the stored value has equalled expected during its
\* wait returns Ok(()) from that check, whatever the value is by then.
TransientReturns(t) ==
    (op[t] = Untimed /\ pc[t] = "check" /\ hit[t] /\ pc'[t] # "check")
        => (result'[t] = "panic" \/ (pc'[t] = "unlock" /\ result'[t] = "ok"))

TransientCaught == [][\A t \in Threads : TransientReturns(t)]_vars

\* C20 as amended: a wait_for(expected) returns Ok(()) only from a check
\* that finds the stored value equal to expected; when the value equalled
\* expected during its wait and a later set has replaced it before the
\* check, the waiter goes back to cvar.wait.
TransientRecheck(t) ==
    (op[t] = Untimed /\ pc[t] = "check" /\ hit[t] /\ pc'[t] # "check")
        => \/ result'[t] = "panic"
           \/ value \in pred[t] /\ pc'[t] = "unlock" /\ result'[t] = "ok"
           \/ value \notin pred[t] /\ pc'[t] = "wait" /\ result'[t] = "none"

TransientMissed == [][\A t \in Threads : TransientRecheck(t)]_vars

\* C20's case: the value equalled expected while the waiter was blocked,
\* was replaced, and the waiter has checked and is asleep again.
TransientMissedWitness ==
    \E t \in Threads :
        /\ op[t] = Untimed /\ pc[t] = "sleep" /\ woke[t] /\ hit[t]
        /\ value \notin pred[t] /\ Cardinality(pred[t]) = 1

====
